---- MODULE Spec2Model ----
(***************************************************************************)
(* Model of the multi-producer / multi-consumer broadcast event queue      *)
(* (src/src/event_queue.rs, src/src/event_reader.rs, src/src/cursor.rs).   *)
(*                                                                         *)
(* Chunks live in a heap of addresses; every pointer of the program        *)
(* (list.first, list.last, chunk.next, Cursor.chunk) is an address.  A     *)
(* destructed chunk keeps its last contents until the allocator hands the  *)
(* address out again, and the allocator may hand out any free address, so  *)
(* a read through a dangling pointer sees either the stale chunk or the    *)
(* chunk that now lives there.  A dereference of the null pointer ends the *)
(* process.                                                                *)
(*                                                                         *)
(* Operations that run under the producer mutex are split at every write   *)
(* that a lock-free reader can observe.  The lock-free reader operations   *)
(* are split at every load or read-modify-write of shared memory.          *)
(***************************************************************************)
EXTENDS Integers, Sequences, FiniteSets, TLC

\* ------------------------------------------------------------------ bounds
\* Settings::MIN_CHUNK_SIZE / MAX_CHUNK_SIZE of the instance that is checked.
MIN_CHUNK_SIZE == 1
MAX_CHUNK_SIZE == 4
\* Chunk ids handed out over a run of a build without double_buffering.
MaxChunks == 3
\* Heap addresses, and the chunk ids handed out over a run of a build with
\* double_buffering.
MaxChunksRecycle == 5
\* Values pushed over a run of a build with double_buffering.
MaxPushRecycle == 7
\* Values pushed over a run with one reader; the k-th pushed value is k.
\* A run with n readers pushes MaxPush + 1 - n values (see Workloads).
MaxPush == 3
\* Longest sequence handed to one extend().
MaxExtend == 2
\* Number of start_position moves (clear, truncate_front) over a run with
\* one reader; a run with n readers makes MaxEpoch + 1 - n of them.
MaxEpoch == 2
\* Largest argument of truncate_front.
MaxTruncate == 2
\* EventReader objects created over a run; each is made by one subscribe()
\* and ends with its drop.
NumReaders == 2
\* Owner handles (Pin<Arc<EventQueue>>) of the runs that drop them.
MaxHandles == 2

\* Settings::AUTO_CLEANUP (CleanupMode::OnChunkRead) of DefaultSettings.
AUTO_CLEANUP == TRUE

NULL == 0
Addr == 1..MaxChunksRecycle
Readers == 1..NumReaders
\* Thread id of the producers / the owner handle in the mutex record.
PRODUCER == 0

Min(a, b) == IF a < b THEN a ELSE b

VARIABLES
    mem,              \* heap: address -> chunk (DynamicChunk)
    nalloc,           \* number of addresses the allocator has handed out fresh
    first,            \* List.first
    last,             \* List.last
    chunk_id_counter, \* List.chunk_id_counter
    penult_chunk_size,\* List.penult_chunk_size
    free_chunk,       \* List.free_chunk: the recycled chunk, NULL for None
    readers,          \* EventQueue.readers
    start_position,   \* EventQueue.start_position
    mtx,              \* EventQueue.list mutex: the operation holding it
    rd,               \* EventReader + its Iter + the thread's position in the code
    pushed,           \* number of values pushed so far
    got,              \* per reader: values Iter::next has returned since subscribe
    subAt,            \* per reader: value of `pushed` when subscribe took the lock
    clears,           \* number of set_start_position calls so far
    hist,             \* history of the clear() calls
    load,             \* what the clients of this run do at most (fixed by Init)
    arc               \* the Arc<EventQueue>: strong count, owner handles, drops

vars == <<mem, nalloc, first, last, chunk_id_counter, penult_chunk_size,
          free_chunk, readers, start_position, mtx, rd, pushed, got, subAt, clears, hist,
          load, arc>>

listVars == <<first, last, chunk_id_counter, penult_chunk_size, free_chunk>>
histVars == <<pushed, got, subAt>>

\* cleared: the number of values pushed when the latest clear() took the lock,
\* -1 before the first clear().  tid: the id of the chunk the latest move of
\* start_position was a truncate_front to, when that chunk is in the list
\* after the head, else -1.  tfirst: the number of the first value of that
\* chunk in push order.  subs: the readers that were subscribed then.
NoHist == [cleared |-> -1, tid |-> -1, tfirst |-> 0, subs |-> {}]

\* ------------------------------------------------------------------ chunks
\* Memory that was never a chunk.
NoChunk ==
    [live |-> FALSE, id |-> 0, capacity |-> 0, len |-> 0, epoch |-> 0,
     next |-> NULL, read_completely_times |-> 0, vals |-> <<>>]

\* DynamicChunk::construct(id, epoch, event, len)
Construct(id, epoch, size) ==
    [live |-> TRUE, id |-> id, capacity |-> size, len |-> 0, epoch |-> epoch,
     next |-> NULL, read_completely_times |-> 0, vals |-> <<>>]

\* Cursor{chunk, index}
Cursor(c, i) == [chunk |-> c, index |-> i]

\* Cursor::lt / Cursor::cmp: by chunk id, then by index.
CursorLt(a, b) ==
    LET self_chunk_id  == mem[a.chunk].id
        other_chunk_id == mem[b.chunk].id
    IN  IF self_chunk_id < other_chunk_id THEN TRUE
        ELSE IF self_chunk_id > other_chunk_id THEN FALSE
        ELSE a.index < b.index

CursorLe(a, b) == ~CursorLt(b, a)

\* Addresses the allocator may return: a freed one, or the next fresh one.
FreeAddrs ==
    {a \in Addr : (a <= nalloc /\ ~mem[a].live /\ a # free_chunk)
                     \/ a = nalloc + 1}

\* The chunks reachable from list.first by next pointers.
RECURSIVE Reach(_, _)
Reach(a, n) ==
    IF a = NULL \/ n = 0 THEN {}
    ELSE {a} \cup Reach(mem[a].next, n - 1)

ListChunks == Reach(first, MaxChunksRecycle)

\* EventQueue::chunks_count
ChunksCount == chunk_id_counter - mem[first].id + 1

\* ------------------------------------------------------------- mutex record
\* op: the operation holding the mutex and its place in the code; owner: the
\* thread; cur: the chunk a walk stands at; n: values left (extend) or the
\* new epoch (set_start_position); rc: readers_count of cleanup_impl;
\* call: "clear" or "truncate_front" while that call holds the mutex; k, ret,
\* before: the argument of truncate_front, its result and chunks_count() when
\* it took the lock.
MtxFree ==
    [op |-> "free", owner |-> PRODUCER, cur |-> NULL, n |-> 0,
     rc |-> 0, call |-> "", k |-> 0, ret |-> 0, before |-> 0]

\* ------------------------------------------------------------ reader record
NoCursor == Cursor(NULL, 0)

RdNone ==
    [pc |-> "none", position |-> NoCursor, epoch |-> 0,
     it |-> NoCursor, chunk_len |-> 0,
     target |-> NoCursor, cur |-> NULL, need |-> FALSE, rcm1 |-> 0,
     cont |-> "idle", upd |-> FALSE, fresh |-> FALSE, trav |-> FALSE,
     calm |-> FALSE, seen |-> 0]

\* The runs that are explored: n EventReader objects, MaxPush + 1 - n pushed
\* values and MaxEpoch + 1 - n moves of start_position, for every n up to
\* NumReaders.
Workloads ==
    {[readers |-> n, pushes |-> MaxPush + 1 - n, moves |-> MaxEpoch + 1 - n,
      handles |-> 1, chunks |-> MaxChunks, double_buffering |-> FALSE,
      debug_assertions |-> FALSE] :
        n \in 1..NumReaders}

\* Without clear() and truncate_front(): every reader and every push at once.
WorkloadsNoClear ==
    {[readers |-> NumReaders, pushes |-> MaxPush, moves |-> 0, handles |-> 1,
      chunks |-> MaxChunks, double_buffering |-> FALSE,
      debug_assertions |-> FALSE]}

\* Without clear() and truncate_front(), the queue shared by up to MaxHandles
\* owner handles that the clients drop during the run.
WorkloadsArc ==
    {[readers |-> NumReaders, pushes |-> MaxPush, moves |-> 0,
      handles |-> h, chunks |-> MaxChunks, double_buffering |-> FALSE,
      debug_assertions |-> FALSE] : h \in 1..MaxHandles}

\* A build with the feature double_buffering, with and without
\* debug_assertions: one reader, MaxPushRecycle values, no clear() and no
\* truncate_front().
WorkloadsRecycle ==
    {[readers |-> 1, pushes |-> MaxPushRecycle, moves |-> 0, handles |-> 1,
      chunks |-> MaxChunksRecycle, double_buffering |-> TRUE,
      debug_assertions |-> d] : d \in BOOLEAN}

\* cfg(feature = "double_buffering") of the build that is checked.
double_buffering == load.double_buffering

\* The process is gone once a thread dereferenced the null pointer.
Alive == \A r \in Readers : rd[r].pc # "segv"

\* A method of EventQueue is called through an owner handle.
Owned == Alive /\ arc.handles > 0

\* --------------------------------------------------------------------- Init
\* EventQueue::new: one chunk of MIN_CHUNK_SIZE, id 0, epoch 0;
\* start_position = (that chunk, 0); no readers.
InitQueue ==
    /\ mem = [a \in Addr |-> IF a = 1 THEN Construct(0, 0, MIN_CHUNK_SIZE)
                             ELSE NoChunk]
    /\ nalloc = 1
    /\ first = 1
    /\ last = 1
    /\ chunk_id_counter = 0
    /\ penult_chunk_size = 0
    /\ free_chunk = NULL
    /\ readers = 0
    /\ start_position = Cursor(1, 0)
    /\ mtx = MtxFree
    /\ rd = [r \in Readers |-> RdNone]
    /\ pushed = 0
    /\ got = [r \in Readers |-> <<>>]
    /\ subAt = [r \in Readers |-> 0]
    /\ clears = 0
    /\ hist = NoHist
    /\ arc = [strong |-> load.handles, handles |-> load.handles, drops |-> 0]

Init == load \in Workloads /\ InitQueue

InitNoClear == load \in WorkloadsNoClear /\ InitQueue

InitArc == load \in WorkloadsArc /\ InitQueue

InitRecycle == load \in WorkloadsRecycle /\ InitQueue

\* ------------------------------------------------------- producer: add_chunk
\* Mutant of NewSize: every new chunk doubles the tail's capacity.
NewSizeAlwaysDouble ==
    Min(mem[last].capacity * 2, MAX_CHUNK_SIZE)

\* The size pattern 4,4,8,8,16,16 of add_chunk.
NewSize ==
    IF penult_chunk_size = mem[last].capacity
    THEN Min(mem[last].capacity * 2, MAX_CHUNK_SIZE)
    ELSE mem[last].capacity

\* add_chunk with double_buffering: debug_assert!(node.capacity() == new_size)
\* in the branch where list.free_chunk is Some.
AddChunkAssert ==
    free_chunk # NULL => mem[last].capacity = NewSize

\* add_chunk with double_buffering: the recycled chunk is taken for the new
\* tail.
TakeRecycled ==
    /\ double_buffering
    /\ free_chunk # NULL
    /\ mem[free_chunk].capacity >= NewSize

\* DynamicChunk::from_recycled(recycled_chunk, id, epoch): the recycled
\* memory, of the capacity it has, as an empty chunk.
FromRecycled(c, id, epoch) ==
    Construct(id, epoch, mem[c].capacity)

\* EventQueue::add_chunk: the new tail, the recycled chunk or one constructed
\* at address a, is linked.  In a build with debug_assertions the call goes
\* on only when the assertion holds.
AddChunk(a) ==
    /\ load.debug_assertions => AddChunkAssert
    /\ IF TakeRecycled THEN a = free_chunk ELSE a \in FreeAddrs
    /\ chunk_id_counter' = chunk_id_counter + 1
    /\ mem' = [mem EXCEPT ![last].next = a,
                          ![a] = IF TakeRecycled
                                 THEN FromRecycled(a, chunk_id_counter + 1,
                                                   mem[last].epoch)
                                 ELSE Construct(chunk_id_counter + 1,
                                                mem[last].epoch, NewSize)]
    /\ free_chunk' = IF TakeRecycled THEN NULL ELSE free_chunk
    /\ nalloc' = IF ~TakeRecycled /\ a = nalloc + 1 THEN nalloc + 1 ELSE nalloc
    /\ last' = a
    /\ penult_chunk_size' = mem[last].capacity
    /\ first' = first

\* DynamicChunk::try_push / push_unchecked: write the slot, then publish len.
PushInto(m, c, v) ==
    [m EXCEPT ![c].vals = Append(@, v), ![c].len = @ + 1]

\* DynamicChunk::extend: fill chunk c with the values from+1 .. from+t and
\* publish the length once.
RECURSIVE FillInto(_, _, _, _)
FillInto(m, c, from, t) ==
    IF t = 0 THEN m
    ELSE FillInto(PushInto(m, c, from + 1), c, from + 1, t - 1)

\* ------------------------------------------------------------ producer: push
\* Mutant of PushTry: a push that does not take the list mutex.
PushTryNoLock ==
    /\ Owned /\ pushed < load.pushes
    /\ mem[last].len < mem[last].capacity
    /\ mem' = PushInto(mem, last, pushed + 1)
    /\ pushed' = pushed + 1
    /\ UNCHANGED <<nalloc, listVars, readers, start_position, mtx, rd, got,
                   subAt, clears, hist, load, arc>>

\* push, tail not full: lock, try_push, unlock.
PushTry ==
    /\ Owned /\ mtx.op = "free" /\ pushed < load.pushes
    /\ mem[last].len < mem[last].capacity
    /\ mem' = PushInto(mem, last, pushed + 1)
    /\ pushed' = pushed + 1
    /\ UNCHANGED <<nalloc, listVars, readers, start_position, mtx, rd, got,
                   subAt, clears, hist, load, arc>>

\* Mutant of TailFull: push adds a chunk whatever the tail holds.
TailFullAlways == TRUE

\* node.try_push(value) returns Err: the tail has no free slot.
TailFull == mem[last].len = mem[last].capacity

\* push, tail full: lock, add_chunk (the new tail is linked and still empty).
PushAddChunk ==
    /\ Owned /\ mtx.op = "free" /\ pushed < load.pushes
    /\ TailFull
    /\ chunk_id_counter + 1 < load.chunks
    /\ \E a \in Addr : AddChunk(a)
    /\ mtx' = [MtxFree EXCEPT !.op = "push_unchecked"]
    /\ UNCHANGED <<readers, start_position, rd, histVars, clears, hist, load, arc>>

\* push, tail full: push_unchecked into the new tail, unlock.
PushUnchecked ==
    /\ Alive /\ mtx.op = "push_unchecked"
    /\ mem' = PushInto(mem, last, pushed + 1)
    /\ pushed' = pushed + 1
    /\ mtx' = MtxFree
    /\ UNCHANGED <<nalloc, listVars, readers, start_position, rd, got, subAt,
                   clears, hist, load, arc>>

\* ---------------------------------------------------------- producer: extend
\* node.extend(&mut iter): the tail takes what fits of the n values left;
\* m is the mutex record of the extend call.
ExtendFill(n, m) ==
    LET space == mem[last].capacity - mem[last].len
        t     == Min(n, space)
    IN  /\ mem' = FillInto(mem, last, pushed, t)
        /\ pushed' = pushed + t
        /\ mtx' = IF n - t = 0 THEN MtxFree
                  ELSE [m EXCEPT !.op = "extend_add", !.n = n - t]

\* extend(iter) with n values: lock and the first node.extend.
ExtendBegin ==
    /\ Owned /\ mtx.op = "free"
    /\ \E n \in 1..MaxExtend :
          /\ pushed + n <= load.pushes
          /\ chunk_id_counter + n < load.chunks
          /\ ExtendFill(n, [MtxFree EXCEPT !.call = "extend",
                                           !.before = pushed, !.k = n])
    /\ UNCHANGED <<nalloc, listVars, readers, start_position, rd, got, subAt,
                   clears, hist, load, arc>>

\* extend: the tail is full and a value is left: add_chunk.
ExtendAddChunk ==
    /\ Alive /\ mtx.op = "extend_add"
    /\ \E a \in Addr : AddChunk(a)
    /\ mtx' = [mtx EXCEPT !.op = "extend_push"]
    /\ UNCHANGED <<readers, start_position, rd, histVars, clears, hist, load, arc>>

\* push or extend in a build with debug_assertions and double_buffering:
\* the assertion of add_chunk fails after list.chunk_id_counter += 1; the
\* panic unwinds out of the call and drops the MutexGuard.
AddChunkPanic ==
    /\ \/ /\ Owned /\ mtx.op = "free" /\ pushed < load.pushes
          /\ TailFull
          /\ chunk_id_counter + 1 < load.chunks
       \/ Alive /\ mtx.op = "extend_add"
    /\ load.debug_assertions /\ ~AddChunkAssert
    /\ chunk_id_counter' = chunk_id_counter + 1
    /\ mtx' = MtxFree
    /\ UNCHANGED <<mem, nalloc, first, last, penult_chunk_size, free_chunk,
                   readers, start_position, rd, histVars, clears, hist, load,
                   arc>>

\* extend: push_unchecked of that value into the new tail.
ExtendPushUnchecked ==
    /\ Alive /\ mtx.op = "extend_push"
    /\ mem' = PushInto(mem, last, pushed + 1)
    /\ pushed' = pushed + 1
    /\ mtx' = IF mtx.n = 1 THEN MtxFree
              ELSE [mtx EXCEPT !.op = "extend_fill", !.n = @ - 1]
    /\ UNCHANGED <<nalloc, listVars, readers, start_position, rd, got, subAt,
                   clears, hist, load, arc>>

\* extend: the next turn of the while loop, node.extend on the new tail.
ExtendMore ==
    /\ Alive /\ mtx.op = "extend_fill"
    /\ ExtendFill(mtx.n, mtx)
    /\ UNCHANGED <<nalloc, listVars, readers, start_position, rd, got, subAt,
                   clears, hist, load, arc>>

\* ------------------------------------------------------- producer: subscribe
\* Mutant of SubscribePosition: the new reader is left at the head.
SubscribePositionHead == Cursor(first, 0)

\* The cursor subscribe moves the new reader to: the end of the tail.
SubscribePosition == Cursor(last, mem[last].len)

\* Mutant of ArcSubscribe: subscribe takes no strong reference.
ArcSubscribeNoIncrement(prev_readers) == arc

\* subscribe: Arc::increment_strong_count when the previous readers was 0.
ArcSubscribe(prev_readers) ==
    IF prev_readers = 0 THEN [arc EXCEPT !.strong = @ + 1] ELSE arc

\* subscribe: lock, readers.fetch_add(1) and the strong reference of the
\* first reader (the caller holds an owner handle, so the strong count is
\* positive throughout and the two atomics are taken in one step); the new
\* reader stands at (first, 0).
SubscribeBegin(r) ==
    /\ Owned /\ mtx.op = "free" /\ rd[r].pc = "none" /\ r <= load.readers
    /\ readers' = readers + 1
    /\ mtx' = [MtxFree EXCEPT !.op = "subscribe", !.owner = r, !.cur = first]
    /\ rd' = [rd EXCEPT ![r].pc = "subscribing"]
    /\ subAt' = [subAt EXCEPT ![r] = pushed]
    /\ got' = [got EXCEPT ![r] = <<>>]
    /\ arc' = ArcSubscribe(readers)
    /\ UNCHANGED <<mem, nalloc, listVars, start_position, pushed, clears, hist,
                   load>>

\* Mutant of SubscribeWalk: subscribe counts the new reader twice.
SubscribeWalkTwice(r) ==
    /\ Alive /\ mtx.op = "subscribe" /\ mtx.owner = r
    /\ mtx.cur # NULL /\ mtx.cur # SubscribePosition.chunk
    /\ mem' = [mem EXCEPT ![mtx.cur].read_completely_times = @ + 2]
    /\ mtx' = [mtx EXCEPT !.cur = mem[mtx.cur].next]
    /\ UNCHANGED <<nalloc, listVars, readers, start_position, rd, histVars,
                   clears, hist, load, arc>>

\* subscribe: set_forward_position(.., false) marks one passed chunk as read.
SubscribeWalk(r) ==
    /\ Alive /\ mtx.op = "subscribe" /\ mtx.owner = r
    /\ mtx.cur # NULL /\ mtx.cur # SubscribePosition.chunk
    /\ mem' = [mem EXCEPT ![mtx.cur].read_completely_times = @ + 1]
    /\ mtx' = [mtx EXCEPT !.cur = mem[mtx.cur].next]
    /\ UNCHANGED <<nalloc, listVars, readers, start_position, rd, histVars,
                   clears, hist, load, arc>>

\* subscribe: the reader takes its position and the tail's epoch; unlock.
SubscribeEnd(r) ==
    /\ Alive /\ mtx.op = "subscribe" /\ mtx.owner = r
    /\ (mtx.cur = NULL \/ mtx.cur = SubscribePosition.chunk)
    /\ rd' = [rd EXCEPT ![r] = [RdNone EXCEPT !.pc = "idle",
                                              !.position = SubscribePosition,
                                              !.epoch = mem[last].epoch,
                                              !.seen = clears]]
    /\ mtx' = MtxFree
    /\ UNCHANGED <<mem, nalloc, listVars, readers, start_position, histVars,
                   clears, hist, load, arc>>

\* ------------------------------------------------------------------ cleanup
\* Mutant of CleanupGate: one reader too few.
CleanupGateOffByOne(c, readers_count) ==
    mem[c].read_completely_times >= readers_count - 1

\* cleanup_impl's test on the head chunk: every reader has read it completely.
CleanupGate(c, readers_count) ==
    mem[c].read_completely_times = readers_count

\* free_chunk: the chunk leaves the heap of chunks, destructed or recycled.
FreeChunk(m, c) == [m EXCEPT ![c].live = FALSE]

\* Mutant of FreeChunkSlot: the reclaimed chunk always replaces the held one.
FreeChunkSlotAlways(c) ==
    IF double_buffering THEN c ELSE free_chunk

\* free_chunk with double_buffering: what list.free_chunk holds after chunk c
\* is reclaimed.  c is destructed when the held chunk has at least its
\* capacity; else c is recycled into the slot and the held one is dropped.
FreeChunkSlot(c) ==
    IF ~double_buffering THEN free_chunk
    ELSE IF free_chunk # NULL /\ mem[free_chunk].capacity >= mem[c].capacity
         THEN free_chunk
         ELSE c

\* What a reader does when its set_forward_position is through: step 2,
\* "Update EventReader chunk+index", and the return into its caller.
SfpDone(r) ==
    [rd[r] EXCEPT !.position = rd[r].target, !.pc = rd[r].cont,
                  !.target = NoCursor, !.cur = NULL, !.need = FALSE,
                  !.rcm1 = 0, !.cont = "idle"]

\* One turn of the foreach_chunk(list.first, list.last) of cleanup_impl under
\* the mutex record m; the turn that breaks or ends the walk also runs the
\* rest of cleanup_impl, unlocks and returns.
CleanupIter(m) ==
    IF first # last /\ CleanupGate(first, m.rc)
    THEN /\ mem' = FreeChunk(mem, first)
         /\ free_chunk' = FreeChunkSlot(first)
         /\ first' = mem[first].next
         /\ mtx' = m
         /\ UNCHANGED <<penult_chunk_size, rd>>
    ELSE /\ penult_chunk_size' = IF first = last THEN 0 ELSE penult_chunk_size
         /\ free_chunk' = free_chunk
         /\ mtx' = MtxFree
         /\ rd' = IF m.owner \in Readers
                  THEN [rd EXCEPT ![m.owner] = SfpDone(m.owner)]
                  ELSE rd
         /\ UNCHANGED <<mem, first>>

\* EventQueue::cleanup called by the owner, and the cleanup_impl that
\* set_start_position runs when there are no readers.
Cleanup ==
    /\ Alive
    /\ \/ mtx.op = "free" /\ Owned
       \/ mtx.op = "cleanup" /\ mtx.owner = PRODUCER
    /\ CleanupIter(IF mtx.op = "free"
                   THEN [MtxFree EXCEPT !.op = "cleanup", !.rc = readers]
                   ELSE mtx)
    /\ UNCHANGED <<nalloc, last, chunk_id_counter, readers, start_position,
                   histVars, clears, hist, load, arc>>

\* -------------------------------------------------------------- unsubscribe
\* Mutant of UnsubscribeLast: unsubscribe walks over the whole list.
UnsubscribeLastNull(r) == NULL

\* unsubscribe: the chunk its foreach_chunk(list.first, ..) stops before.
UnsubscribeLast(r) == rd[r].position.chunk

\* EventReader::drop -> EventQueue::unsubscribe: one turn of the walk from
\* list.first to the reader's chunk; the last turn decrements readers and
\* unlocks; the reader that was the last one still has to release the strong
\* reference of the readers.
Unsubscribe(r) ==
    /\ Alive
    /\ \/ mtx.op = "free" /\ rd[r].pc = "idle"
       \/ mtx.op = "unsubscribe" /\ mtx.owner = r
    /\ LET m == IF mtx.op = "free"
                THEN [MtxFree EXCEPT !.op = "unsubscribe", !.owner = r,
                                     !.cur = first]
                ELSE mtx
       IN  IF m.cur # NULL /\ m.cur # UnsubscribeLast(r)
           THEN /\ mem' = [mem EXCEPT ![m.cur].read_completely_times = @ - 1]
                /\ mtx' = [m EXCEPT !.cur = mem[m.cur].next]
                /\ rd' = [rd EXCEPT ![r].pc = "dropping"]
                /\ UNCHANGED readers
           ELSE /\ readers' = readers - 1
                /\ rd' = [rd EXCEPT ![r] =
                             [RdNone EXCEPT !.pc = IF readers = 1
                                                   THEN "arc_dec"
                                                   ELSE "dropped"]]
                /\ mtx' = MtxFree
                /\ UNCHANGED mem
    /\ UNCHANGED <<nalloc, listVars, start_position, histVars, clears, hist,
                   load, arc>>

\* ------------------------------------------------------ the Arc of the queue
\* Drop for EventQueue: DynamicChunk::destruct of every chunk from list.first.
Destruct(m) ==
    [a \in Addr |-> IF a \in ListChunks THEN [m[a] EXCEPT !.live = FALSE]
                    ELSE m[a]]

\* Releasing one strong reference of the Arc a; the release of the last one
\* runs Drop for EventQueue.
ArcRelease(a) ==
    /\ mem' = IF a.strong = 1 THEN Destruct(mem) ELSE mem
    /\ arc' = [a EXCEPT !.strong = @ - 1,
                        !.drops = IF a.strong = 1 THEN @ + 1 ELSE @]

\* unsubscribe of the last reader, after the unlock:
\* Arc::decrement_strong_count(self); the reader is gone.
ArcDecrement(r) ==
    /\ Alive /\ rd[r].pc = "arc_dec"
    /\ ArcRelease(arc)
    /\ rd' = [rd EXCEPT ![r].pc = "dropped"]
    /\ UNCHANGED <<nalloc, listVars, readers, start_position, mtx, histVars,
                   clears, hist, load>>

\* A method of EventQueue called through an owner handle is in progress.
HandleInUse ==
    mtx.op # "free" /\ (mtx.owner = PRODUCER \/ mtx.op = "subscribe")

\* A client drops an owner handle (Pin<Arc<EventQueue>>) that no call in
\* progress borrows.
DropOwner ==
    /\ Alive /\ arc.handles > 0
    /\ arc.handles > 1 \/ ~HandleInUse
    /\ ArcRelease([arc EXCEPT !.handles = @ - 1])
    /\ UNCHANGED <<nalloc, listVars, readers, start_position, mtx, rd,
                   histVars, clears, hist, load>>

\* Mutant of SetEpochFrom: the new epoch is the head's epoch, not one more.
SetEpochFromSame(m) ==
    [m EXCEPT !.op = "set_epoch", !.cur = first, !.n = mem[first].epoch]

\* ------------------------------------------------------- set_start_position
\* The mutex record right after set_start_position stored the new cursor:
\* new_epoch is the head's epoch + 1 and the walk starts at list.first.
SetEpochFrom(m) ==
    [m EXCEPT !.op = "set_epoch", !.cur = first, !.n = mem[first].epoch + 1]

\* set_start_position: set_epoch of one chunk; after the last chunk, with
\* AUTO_CLEANUP and no readers, cleanup_impl follows under the same lock.
SetEpochIter ==
    /\ Alive /\ mtx.op = "set_epoch" /\ mtx.cur # NULL
    /\ mem' = [mem EXCEPT ![mtx.cur].epoch = mtx.n]
    /\ mtx' = IF mem[mtx.cur].next # NULL
              THEN [mtx EXCEPT !.cur = mem[mtx.cur].next]
              ELSE IF AUTO_CLEANUP /\ readers = 0
                   THEN [mtx EXCEPT !.op = "cleanup", !.cur = NULL, !.n = 0,
                                    !.rc = readers]
                   ELSE MtxFree
    /\ UNCHANGED <<nalloc, listVars, readers, start_position, rd, histVars,
                   clears, hist, load, arc>>

\* -------------------------------------------------------------------- clear
\* The cursor clear hands to set_start_position: the end of the tail.
ClearPosition == Cursor(last, mem[last].len)

\* clear: lock, store start_position.
Clear ==
    /\ Owned /\ mtx.op = "free" /\ clears < load.moves
    /\ start_position' = ClearPosition
    /\ mtx' = SetEpochFrom([MtxFree EXCEPT !.call = "clear"])
    /\ clears' = clears + 1
    /\ hist' = [NoHist EXCEPT !.cleared = pushed]
    /\ rd' = [r \in Readers |-> [rd[r] EXCEPT !.fresh = FALSE,
                                                !.trav = FALSE,
                                                !.calm = FALSE]]
    /\ UNCHANGED <<mem, nalloc, listVars, readers, histVars, load, arc>>

\* ----------------------------------------------------------- truncate_front
\* chunk_id of truncate_front(chunks_count): the first chunk that is kept.
TruncateTarget(k) == chunk_id_counter - k + 1

\* The early return of truncate_front.
TruncateNothing(k) == TruncateTarget(k) <= 0

\* usize subtraction in a release build wraps; TLC's integers are 32 bits
\* wide, so the model wraps at 2^16 where the program wraps at 2^64.
UsizeWrap(x) == IF x >= 0 THEN x ELSE x + 65536

\* freed_chunks = chunk_id as usize - (*list.first).id()
FreedChunks(k) == UsizeWrap(TruncateTarget(k) - mem[first].id)

\* start_chunk: the chunk of the list whose id is chunk_id, else null.
StartChunk(id) ==
    IF \E a \in ListChunks : mem[a].id = id
    THEN CHOOSE a \in ListChunks : mem[a].id = id
    ELSE NULL

\* History: what hist records of a truncate_front(k) that stores
\* start_position.
TruncateHist(k) ==
    LET t == StartChunk(TruncateTarget(k))
    IN  IF t # NULL /\ TruncateTarget(k) > mem[first].id
        THEN [hist EXCEPT !.tid = TruncateTarget(k),
                          !.tfirst = IF mem[t].len > 0 THEN mem[t].vals[1]
                                     ELSE pushed + 1,
                          !.subs = {r \in Readers :
                                      rd[r].pc \notin {"none", "arc_dec",
                                                        "dropped"}}]
        ELSE [hist EXCEPT !.tid = -1, !.tfirst = 0, !.subs = {}]

\* truncate_front(k): lock; either the early return is taken, or
\* start_position is stored and the epochs are to be set.  With chunk_id below
\* the head's id the subtraction of freed_chunks overflows: a build with
\* overflow checks panics there, a build without them wraps.
TruncateFront ==
    /\ Owned /\ mtx.op = "free"
    /\ \E k \in 0..MaxTruncate :
        LET m == [MtxFree EXCEPT !.call = "truncate_front", !.k = k,
                                 !.before = ChunksCount]
        IN  IF TruncateNothing(k)
            THEN /\ mtx' = [m EXCEPT !.op = "tf_return", !.ret = 0]
                 /\ UNCHANGED <<start_position, clears, hist, rd>>
            ELSE \/ /\ clears < load.moves
                    /\ start_position' =
                          Cursor(StartChunk(TruncateTarget(k)), 0)
                    /\ mtx' = SetEpochFrom([m EXCEPT !.ret = FreedChunks(k)])
                    /\ clears' = clears + 1
                    /\ hist' = TruncateHist(k)
                    /\ rd' = [r \in Readers |->
                                [rd[r] EXCEPT !.fresh = FALSE, !.trav = FALSE,
                                              !.calm = FALSE]]
                 \/ /\ TruncateTarget(k) < mem[first].id
                    /\ mtx' = [m EXCEPT !.op = "tf_panic"]
                    /\ UNCHANGED <<start_position, clears, hist, rd>>
    /\ UNCHANGED <<mem, nalloc, listVars, readers, histVars, load, arc>>

\* truncate_front: return 0 of the early return; unlock.
TruncateReturn ==
    /\ Alive /\ mtx.op = "tf_return"
    /\ mtx' = MtxFree
    /\ UNCHANGED <<mem, nalloc, listVars, readers, start_position, rd,
                   histVars, clears, hist, load, arc>>

\* truncate_front: the panic unwinds and drops the MutexGuard.
TruncatePanic ==
    /\ Alive /\ mtx.op = "tf_panic"
    /\ mtx' = MtxFree
    /\ UNCHANGED <<mem, nalloc, listVars, readers, start_position, rd,
                   histVars, clears, hist, load, arc>>

\* ------------------------------------------------- reader: start of a visit
\* History: start_position has been moved and no clear() or truncate_front()
\* is moving it now; an Iter whose iter() call starts in such a state is
\* marked fresh.
AfterClear ==
    /\ clears >= 1
    /\ ~(mtx.call \in {"clear", "truncate_front"}
         /\ mtx.op \in {"set_epoch", "cleanup"})

\* History: a clear() or truncate_front() is in progress.  An iter() or
\* update_position() call that starts in another state is marked calm, until
\* the next clear() or truncate_front() moves start_position.
InMove == mtx.op # "free" /\ mtx.call \in {"clear", "truncate_front"}

\* Mutant of RefreshEpoch: the new epoch is not stored in the reader.
RefreshEpochNoCache(r, upd) ==
    LET c == rd[r].position.chunk
    IN  IF mem[c].epoch # rd[r].epoch
        THEN [rd[r] EXCEPT !.pc = "slow", !.upd = upd,
                           !.fresh = ~upd /\ AfterClear, !.calm = ~InMove]
        ELSE IF upd THEN [rd[r] EXCEPT !.calm = ~InMove]
             ELSE [rd[r] EXCEPT !.pc = "iter", !.it = rd[r].position,
                                !.chunk_len = mem[c].len,
                                !.fresh = AfterClear, !.calm = ~InMove]

\* update_start_position_and_get_len, first load: chunk_state(Acquire) of the
\* reader's chunk.  With the cached epoch current, iter() has its Iter and
\* update_position() is through; else the epoch is cached and the slow path
\* do_update_start_position_and_get_len follows.
RefreshEpoch(r, upd) ==
    LET c == rd[r].position.chunk
    IN  IF mem[c].epoch # rd[r].epoch
        THEN [rd[r] EXCEPT !.epoch = mem[c].epoch, !.pc = "slow", !.upd = upd,
                           !.fresh = ~upd /\ AfterClear, !.calm = ~InMove]
        ELSE IF upd THEN [rd[r] EXCEPT !.calm = ~InMove]
             ELSE [rd[r] EXCEPT !.pc = "iter", !.it = rd[r].position,
                                !.chunk_len = mem[c].len,
                                !.fresh = AfterClear, !.calm = ~InMove]

\* EventReader::iter -> Iter::new
IterNew(r) ==
    /\ Alive /\ rd[r].pc = "idle"
    /\ rd' = [rd EXCEPT ![r] = RefreshEpoch(r, FALSE)]
    /\ UNCHANGED <<mem, nalloc, listVars, readers, start_position, mtx,
                   histVars, clears, hist, load, arc>>

\* EventReader::update_position
UpdatePosition(r) ==
    /\ Alive /\ rd[r].pc = "idle"
    /\ rd' = [rd EXCEPT ![r] = RefreshEpoch(r, TRUE)]
    /\ UNCHANGED <<mem, nalloc, listVars, readers, start_position, mtx,
                   histVars, clears, hist, load, arc>>

\* Mutant of BehindStart: the reader is moved without the comparison.
BehindStartAlways(r, new_start_position) == TRUE

\* The test of the slow path: the reader is behind start_position.
BehindStart(r, new_start_position) ==
    CursorLt(rd[r].position, new_start_position)

\* do_update_start_position_and_get_len: copy start_position under its spin
\* lock and compare.  A null start_position ends the process at chunk_ref().
\* A move within the reader's chunk walks over no chunk and is done at once.
SlowPath(r) ==
    /\ Alive /\ rd[r].pc = "slow"
    /\ LET new_start_position == start_position
       IN  rd' = [rd EXCEPT ![r] =
                IF new_start_position.chunk = NULL
                THEN [rd[r] EXCEPT !.pc = "segv"]
                ELSE IF ~BehindStart(r, new_start_position)
                THEN [rd[r] EXCEPT !.pc = "reload", !.seen = clears]
                ELSE IF new_start_position.chunk = rd[r].position.chunk
                THEN [rd[r] EXCEPT !.position = new_start_position,
                                   !.pc = "reload", !.seen = clears]
                ELSE [rd[r] EXCEPT !.pc = "sfp_load",
                                   !.target = new_start_position,
                                   !.cont = "reload", !.seen = clears]]
    /\ UNCHANGED <<mem, nalloc, listVars, readers, start_position, mtx,
                   histVars, clears, hist, load, arc>>

\* readers_count_min_1 of set_forward_position
ReadersCountMin1 == IF AUTO_CLEANUP THEN readers - 1 ELSE 0

\* set_forward_position from the slow path: event.readers.load(Relaxed).
SfpLoad(r) ==
    /\ Alive /\ rd[r].pc = "sfp_load"
    /\ rd' = [rd EXCEPT ![r].pc = "sfp_walk", ![r].rcm1 = ReadersCountMin1,
                        ![r].cur = rd[r].position.chunk]
    /\ UNCHANGED <<mem, nalloc, listVars, readers, start_position, mtx,
                   histVars, clears, hist, load, arc>>

\* need_cleanup after a fetch_add that returned prev_read.
NeedCleanup(prev_read, readers_count_min_1) ==
    AUTO_CLEANUP /\ prev_read >= readers_count_min_1

\* set_forward_position, "1. Mark passed chunks as read": one turn of
\* foreach_chunk(self.position.chunk, new_position.chunk).  After the last
\* turn the reader either has to call event.cleanup() or is done.
SfpWalk(r) ==
    /\ Alive /\ rd[r].pc = "sfp_walk"
    /\ LET c    == rd[r].cur
           nxt  == mem[c].next
           need == rd[r].need
                   \/ NeedCleanup(mem[c].read_completely_times, rd[r].rcm1)
           walked == [rd EXCEPT ![r].cur = nxt, ![r].need = need]
       IN  /\ c # NULL /\ c # rd[r].target.chunk
           /\ mem' = [mem EXCEPT ![c].read_completely_times = @ + 1]
           /\ rd' = IF nxt # NULL /\ nxt # rd[r].target.chunk
                    THEN walked
                    ELSE IF need
                    THEN [walked EXCEPT ![r].pc = "sfp_cleanup"]
                    ELSE [rd EXCEPT ![r] = SfpDone(r)]
    /\ UNCHANGED <<nalloc, listVars, readers, start_position, mtx, histVars,
                   clears, hist, load, arc>>

\* set_forward_position, "Cleanup (optional)": event.cleanup() by the reader.
ReaderCleanup(r) ==
    /\ Alive /\ rd[r].pc = "sfp_cleanup"
    /\ \/ mtx.op = "free"
       \/ mtx.op = "cleanup" /\ mtx.owner = r
    /\ CleanupIter(IF mtx.op = "free"
                   THEN [MtxFree EXCEPT !.op = "cleanup", !.owner = r,
                                        !.rc = readers]
                   ELSE mtx)
    /\ UNCHANGED <<nalloc, last, chunk_id_counter, readers, start_position,
                   histVars, clears, hist, load, arc>>

\* do_update_start_position_and_get_len, last line: chunk_state(Acquire).len
\* of the reader's chunk; iter() has its Iter, update_position() is through.
Reload(r) ==
    /\ Alive /\ rd[r].pc = "reload"
    /\ rd' = [rd EXCEPT ![r] =
                IF rd[r].upd
                THEN [rd[r] EXCEPT !.pc = "idle", !.upd = FALSE]
                ELSE [rd[r] EXCEPT !.pc = "iter", !.it = rd[r].position,
                                   !.chunk_len =
                                       mem[rd[r].position.chunk].len]]
    /\ UNCHANGED <<mem, nalloc, listVars, readers, start_position, mtx,
                   histVars, clears, hist, load, arc>>

\* ---------------------------------------------------------------- Iter::next
\* The value chunk.get_unchecked(index) reads; a slot at or after the
\* published length is uninitialised, which the model shows as 0.
SlotRead(c, index) ==
    IF index < Len(mem[c].vals) THEN mem[c].vals[index + 1] ELSE 0

\* Mutant of IterSwitch: after the switch the Iter takes the capacity of the
\* new chunk for its length.
IterSwitchCapacity(r) ==
    LET i   == rd[r].it
        nxt == mem[i.chunk].next
    IN  IF i.index # rd[r].chunk_len THEN rd[r]
        ELSE IF nxt = NULL THEN rd[r]
        ELSE IF mem[i.chunk].len # rd[r].chunk_len THEN rd[r]
        ELSE [rd[r] EXCEPT !.it = Cursor(nxt, 0),
                           !.chunk_len = mem[nxt].capacity]

\* Mutant of IterSwitch: next() never follows the next pointer.
IterSwitchNever(r) == rd[r]

\* The Iter after the switch to the next chunk, or the same Iter if next()
\* has to return None before the switch.
IterSwitch(r) ==
    LET i   == rd[r].it
        nxt == mem[i.chunk].next
    IN  IF i.index # rd[r].chunk_len THEN rd[r]
        ELSE IF nxt = NULL THEN rd[r]
        ELSE IF mem[i.chunk].len # rd[r].chunk_len THEN rd[r]
        ELSE [rd[r] EXCEPT !.it = Cursor(nxt, 0),
                           !.chunk_len = mem[nxt].len]

\* Iter::next: None (the Iter may have switched chunk), or Some(value).
IterNext(r) ==
    /\ Alive /\ rd[r].pc = "iter"
    /\ LET sw == IterSwitch(r)
       IN  IF sw.it.index = sw.chunk_len
           THEN /\ rd' = [rd EXCEPT ![r] = sw]
                /\ UNCHANGED got
           ELSE IF sw.it.index >= mem[sw.it.chunk].capacity
           THEN /\ rd' = [rd EXCEPT ![r] = [sw EXCEPT !.pc = "segv"]]
                /\ UNCHANGED got
           ELSE /\ rd' = [rd EXCEPT ![r] =
                            [sw EXCEPT !.it.index = @ + 1]]
                /\ got' = [got EXCEPT ![r] =
                            Append(@, SlotRead(sw.it.chunk, sw.it.index))]
    /\ UNCHANGED <<mem, nalloc, listVars, readers, start_position, mtx,
                   pushed, subAt, clears, hist, load, arc>>

\* Iter::drop: set_forward_position(self.position, ..).  An Iter that stayed
\* in the reader's chunk walks over no chunk and is done at once.
IterDrop(r) ==
    /\ Alive /\ rd[r].pc = "iter"
    /\ rd' = [rd EXCEPT ![r] =
                IF rd[r].it.chunk = rd[r].position.chunk
                THEN [rd[r] EXCEPT !.position = rd[r].it, !.pc = "idle",
                                   !.it = NoCursor, !.chunk_len = 0,
                                   !.fresh = FALSE,
                                   !.trav = @ \/ rd[r].fresh]
                ELSE [rd[r] EXCEPT !.pc = "sfp_walk", !.target = rd[r].it,
                                   !.cont = "idle",
                                   !.rcm1 = ReadersCountMin1,
                                   !.cur = rd[r].position.chunk,
                                   !.it = NoCursor, !.chunk_len = 0,
                                   !.fresh = FALSE,
                                   !.trav = @ \/ rd[r].fresh]]
    /\ UNCHANGED <<mem, nalloc, listVars, readers, start_position, mtx,
                   histVars, clears, hist, load, arc>>

\* ----------------------------------------------------------- specifications
\* push, extend, subscribe, reader drop, cleanup and the reader's fast path.
NextNoClear ==
    \/ PushTry \/ PushAddChunk \/ PushUnchecked
    \/ ExtendBegin \/ ExtendAddChunk \/ ExtendPushUnchecked \/ ExtendMore
    \/ Cleanup
    \/ \E r \in Readers :
          \/ SubscribeBegin(r) \/ SubscribeWalk(r) \/ SubscribeEnd(r)
          \/ Unsubscribe(r) \/ ArcDecrement(r)
          \/ IterNew(r) \/ UpdatePosition(r)
          \/ SfpWalk(r) \/ ReaderCleanup(r)
          \/ IterNext(r) \/ IterDrop(r)

\* clear, truncate_front and the reader's slow path.
NextClear ==
    \/ SetEpochIter \/ Clear \/ TruncateFront \/ TruncateReturn
    \/ TruncatePanic
    \/ \E r \in Readers : SlowPath(r) \/ SfpLoad(r) \/ Reload(r)

Next == NextNoClear \/ NextClear

\* Every operation of the queue and of its readers.
Spec == Init /\ [][Next]_vars

\* The executions without clear() and truncate_front().
SpecNoClear == InitNoClear /\ [][NextNoClear]_vars

\* The executions without clear() and truncate_front() in which the clients
\* also drop their owner handles.
NextArc == NextNoClear \/ DropOwner

SpecArc == InitArc /\ [][NextArc]_vars

\* The build with double_buffering, without clear() and truncate_front().
NextRecycle == NextNoClear \/ AddChunkPanic

SpecRecycle == InitRecycle /\ [][NextRecycle]_vars

\* A thread that holds the producer mutex goes on running.
MutexHolderStep ==
    /\ mtx.op # "free"
    /\ \/ PushUnchecked
       \/ ExtendAddChunk \/ ExtendPushUnchecked \/ ExtendMore
       \/ Cleanup
       \/ \E r \in Readers :
             \/ SubscribeWalk(r) \/ SubscribeEnd(r)
             \/ Unsubscribe(r)
             \/ ReaderCleanup(r)

\* The executions without clear() and truncate_front() in which the holder of
\* the mutex goes on, a reader gets the mutex it waits for, and every reader
\* goes on calling iter(), draining the Iter and dropping it.
FairNoClear ==
    /\ SpecNoClear
    /\ WF_vars(MutexHolderStep)
    /\ \A r \in Readers :
          /\ WF_vars(IterNew(r))
          /\ SF_vars(IterNext(r))
          /\ WF_vars(IterDrop(r))
          /\ WF_vars(SfpWalk(r))
          /\ SF_vars(ReaderCleanup(r))
          /\ WF_vars(ArcDecrement(r))

\* A thread inside clear() or truncate_front() goes on running.
MoveHolderStep ==
    /\ mtx.op # "free"
    /\ (SetEpochIter \/ TruncateReturn \/ TruncatePanic)

\* The executions with clear() and truncate_front() in which the holder of
\* the mutex goes on, a reader gets the mutex it waits for, and a reader
\* inside a call goes on running.
FairSpec ==
    /\ Spec
    /\ WF_vars(MutexHolderStep)
    /\ WF_vars(MoveHolderStep)
    /\ \A r \in Readers :
          /\ WF_vars(SlowPath(r))
          /\ WF_vars(SfpLoad(r))
          /\ WF_vars(Reload(r))
          /\ WF_vars(SfpWalk(r))
          /\ SF_vars(ReaderCleanup(r))
          /\ WF_vars(ArcDecrement(r))

\* ------------------------------------------------------------------- claims
\* Reader r holds an EventReader (subscribe has returned, drop has not).
Subscribed(r) == rd[r].pc \notin {"none", "subscribing", "arc_dec", "dropped"}

\* Reader r is inside set_forward_position.
InSfp(r) == rd[r].pc \in {"sfp_load", "sfp_walk", "sfp_cleanup"}

\* All readers are between calls and the producer mutex is free.
Quiescent ==
    /\ mtx.op = "free"
    /\ \A r \in Readers : rd[r].pc \in {"none", "idle", "iter", "dropped"}

\* Every chunk from a along the next pointers up to and including b is live.
RECURSIVE LivePath(_, _, _)
LivePath(a, b, n) ==
    IF n = 0 \/ a = NULL THEN FALSE
    ELSE IF ~mem[a].live THEN FALSE
    ELSE IF a = b THEN TRUE
    ELSE LivePath(mem[a].next, b, n - 1)

\* C1: without clear() and truncate_front(), what a reader has obtained over
\* all its iter() traversals is a prefix of the values pushed after its
\* subscribe(): the i-th value it got is the (subAt + i)-th value pushed, so
\* nothing from before the subscription is yielded and nothing later is
\* skipped, duplicated or reordered; for every reader on its own.
C1_PrefixOfPushed ==
    \A r \in Readers :
        /\ Len(got[r]) <= pushed - subAt[r]
        /\ \A i \in 1..Len(got[r]) : got[r][i] = subAt[r] + i

\* Two readers that subscribed at different times have both read.
C1_Witness ==
    \E r1, r2 \in Readers :
        /\ subAt[r1] < subAt[r2]
        /\ Len(got[r1]) >= 2
        /\ Len(got[r2]) >= 1

\* C2: a reader's cursor only moves forward in (chunk id, index) order: every
\* call of set_forward_position (subscribe, the slow path, Iter drop) has
\* new_position >= position, and the values a reader yields are strictly
\* increasing in push order, so none is yielded twice; clear() and
\* truncate_front() included.
C2_ForwardOnly ==
    /\ [](\A r \in Readers : \A i, j \in 1..Len(got[r]) :
              i < j => got[r][i] < got[r][j])
    /\ [][\A r \in Readers :
            /\ (~InSfp(r) /\ InSfp(r)')
                  => CursorLe(rd[r].position, rd'[r].target)
            /\ (Subscribed(r) /\ ~InSfp(r) /\ Subscribed(r)'
                /\ rd'[r].position # rd[r].position)
                  => CursorLe(rd[r].position, rd'[r].position)
            /\ (rd[r].pc = "subscribing" /\ rd'[r].pc = "idle")
                  => CursorLe(Cursor(first, 0), rd'[r].position)]_vars

\* A reader that had read something is walking to start_position.
C2_Witness ==
    \E r \in Readers :
        /\ rd[r].pc = "sfp_walk" /\ rd[r].cont = "reload"
        /\ Len(got[r]) >= 1

\* C3: a chunk leaves the list only in cleanup_impl under the mutex, as the
\* head, with a successor and with read_completely_times = readers; and so
\* the chunk a reader's cursor is on, the chunks between that cursor and its
\* live Iter, and the chunks a set_forward_position walk still has to visit
\* up to its target are never reclaimed.
C3_NoReclaimUnderReader ==
    /\ [](\A r \in Readers :
            /\ rd[r].pc \in {"idle", "iter", "slow", "reload", "sfp_load",
                             "dropping"}
                  => mem[rd[r].position.chunk].live
            /\ rd[r].pc = "iter"
                  => LivePath(rd[r].position.chunk, rd[r].it.chunk, MaxChunksRecycle)
            /\ rd[r].pc = "sfp_walk"
                  => LivePath(rd[r].cur, rd[r].target.chunk, MaxChunksRecycle)
            /\ rd[r].pc = "sfp_cleanup"
                  => mem[rd[r].target.chunk].live)
    /\ [][\A a \in Addr :
            (mem[a].live /\ ~mem'[a].live)
               => /\ mtx'.op = "cleanup"
                  /\ a = first
                  /\ mem[a].next # NULL
                  /\ first' = mem[a].next
                  /\ mem[a].read_completely_times = readers]_vars

\* A chunk has been reclaimed and a reader's live Iter spans two chunks.
C3_Witness ==
    \E r \in Readers :
        /\ rd[r].pc = "iter"
        /\ rd[r].it.chunk # rd[r].position.chunk
        /\ \E a \in Addr : a <= nalloc /\ ~mem[a].live

\* The larger of two numbers.
Max(a, b) == IF a >= b THEN a ELSE b

\* The number of the last value reader r has yielded, or of the last value
\* pushed before it subscribed.
Prev(r) == IF Len(got[r]) = 0 THEN subAt[r] ELSE got[r][Len(got[r])]

\* C4: an Iter made by an iter() call that started after clear() returned
\* yields nothing pushed before that clear, whatever ran in between
\* (truncate_front included): every value it yields was pushed after the
\* latest clear().
C4_ClearHidesEarlier ==
    [][\A r \in Readers :
          (rd[r].fresh /\ hist.cleared >= 0 /\ Len(got'[r]) > Len(got[r]))
             => got'[r][Len(got'[r])] > hist.cleared]_vars

\* C5: start_position always references a chunk that is live and in the list.
C5_StartPositionLive ==
    /\ start_position.chunk # NULL
    /\ mem[start_position.chunk].live
    /\ start_position.chunk \in ListChunks

\* C6: without clear() and truncate_front(), a subscribed reader that goes on
\* calling iter() and draining it eventually has yielded every value pushed
\* after its subscription (or has been dropped), and once it has, next()
\* yields nothing more.
C6_Delivery ==
    /\ \A r \in Readers :
          Subscribed(r) ~> (\/ rd[r].pc = "dropped"
                            \/ Len(got[r]) = pushed - subAt[r])
    /\ [][\A r \in Readers :
            Len(got[r]) = pushed - subAt[r] /\ pushed' = pushed
               => got'[r] = got[r]]_vars

\* A reader that subscribed after the first push has yielded every later
\* value, from two chunks.
C6_Witness ==
    \E r \in Readers :
        /\ Subscribed(r)
        /\ subAt[r] >= 1
        /\ Len(got[r]) = pushed - subAt[r]
        /\ Len(got[r]) >= 2

\* C7: with auto-cleanup, in every quiescent state with at least one
\* subscriber no chunk that has a successor is in the list with
\* read_completely_times = readers.
C7_NoReadChunkLingers ==
    (AUTO_CLEANUP /\ Quiescent /\ readers >= 1)
       => \A a \in ListChunks :
             mem[a].next # NULL => mem[a].read_completely_times # readers

\* C8: after a truncate_front(k) to a chunk T of the list after the head (and
\* no other move of start_position), an Iter made after it returned resumes
\* at the first value of T when the reader was before T and where the reader
\* was otherwise, and goes on without a gap; and once every reader that was
\* subscribed has made and dropped such an Iter, the head's id is >= T.
C8_TruncateSkips ==
    /\ [][\A r \in Readers :
            (/\ rd[r].fresh /\ hist.tid >= 0
             /\ hist.cleared = -1 /\ clears = 1
             /\ Len(got'[r]) > Len(got[r]))
               => got'[r][Len(got'[r])] = Max(Prev(r) + 1, hist.tfirst)]_vars
    /\ []((/\ AUTO_CLEANUP /\ hist.tid >= 0 /\ mtx.op = "free"
           /\ hist.subs # {}
           /\ \A r \in Readers : rd[r].pc \in {"none", "idle", "dropped"}
           /\ \A r \in hist.subs : rd[r].pc = "idle" /\ rd[r].trav)
             => mem[first].id >= hist.tid)

\* C9: a truncate_front(k) whose chunk_id is <= the head's id takes the early
\* return: it returns 0 and leaves start_position, the epochs and the list as
\* they are.
C9_TruncateNoOp ==
    [][(/\ mtx.op = "free" /\ mtx'.call = "truncate_front"
        /\ TruncateTarget(mtx'.k) <= mem[first].id)
          => /\ mtx'.op = "tf_return" /\ mtx'.ret = 0
             /\ start_position' = start_position
             /\ mem' = mem /\ first' = first]_vars

\* C10: truncate_front returns chunks_count() before the call minus
\* chunks_count() right after it when that is positive, else 0.
C10_TruncateReturnsDecrease ==
    [][(/\ mtx.call = "truncate_front"
        /\ mtx.op \in {"tf_return", "set_epoch", "cleanup"}
        /\ mtx'.op = "free")
          => mtx.ret = Max(mtx.before - ChunksCount', 0)]_vars

\* C11: when a truncate_front(k) returns, start_position is on a chunk of
\* the list, the number it returns is less than chunks_count() was before
\* the call, and chunks_count() is at least 1.
C11_TruncateKeepsOne ==
    [][(/\ mtx.call = "truncate_front"
        /\ mtx.op \in {"tf_return", "set_epoch", "cleanup"}
        /\ mtx'.op = "free")
          => /\ start_position'.chunk \in ListChunks'
             /\ mtx.ret < mtx.before
             /\ ChunksCount' >= 1]_vars

\* The values stored in chunk a are consecutive in push order.
ChunkInOrder(a) ==
    \A i \in 1..(Len(mem[a].vals) - 1) : mem[a].vals[i + 1] = mem[a].vals[i] + 1

\* C12: while an extend(seq) call runs, the values pushed are its own: the
\* count of pushed values changes only in steps of that call, and when the
\* call returns exactly its k values have been pushed since it began, so they
\* hold consecutive positions of the push order; the chunks of the list hold
\* the values in that order, across chunk borders too.
C12_ExtendAtomic ==
    /\ [][mtx.call = "extend"
            => /\ pushed' >= pushed
               /\ pushed' <= mtx.before + mtx.k
               /\ pushed' # pushed => mtx' # mtx
               /\ mtx'.op = "free" => pushed' = mtx.before + mtx.k
               /\ mtx'.op # "free" => /\ mtx'.call = "extend"
                                      /\ mtx'.before = mtx.before
                                      /\ mtx'.k = mtx.k]_vars
    /\ [](\A a \in ListChunks :
            /\ ChunkInOrder(a)
            /\ Len(mem[a].vals) = mem[a].len
            /\ (mem[a].len > 0 /\ mem[a].next = NULL)
                  => mem[a].vals[mem[a].len] = pushed
            /\ (mem[a].len > 0 /\ mem[a].next # NULL
                /\ mem[mem[a].next].len > 0)
                  => mem[mem[a].next].vals[1] = mem[a].vals[mem[a].len] + 1)

\* An extend call of two values has put its first value into the old tail
\* and is about to put the second into a new chunk.
C12_Witness ==
    /\ mtx.call = "extend" /\ mtx.op = "extend_push"
    /\ mtx.k = 2 /\ pushed = mtx.before + 1

\* C13: iter() and Iter::next() never wait for the producer mutex: a reader
\* inside iter() is never at a point where it needs the list mutex while
\* another thread holds it.
C13_ReadersLockFree ==
    \A r \in Readers :
        (rd[r].pc = "sfp_cleanup" /\ rd[r].cont = "reload" /\ ~rd[r].upd)
           => \/ mtx.op = "free"
              \/ mtx.op = "cleanup" /\ mtx.owner = r

\* The chunk in the list whose next is the tail.
Penult(a) == a \in ListChunks /\ mem[a].next = last

PendingRelease == Cardinality({r \in Readers : rd[r].pc = "arc_dec"})

\* C15: the queue is not destroyed while a reader is subscribed: the strong
\* count is the number of owner handles, plus one for the readers together
\* while readers > 0, plus one for every last reader that has decremented
\* readers to 0 and not yet released; Drop for EventQueue runs at most once,
\* only with readers = 0, no owner handle and no EventReader left, and it has
\* run once the owner handles and the readers are all gone.
C15_ArcLifetime ==
    /\ arc.strong = arc.handles + (IF readers > 0 THEN 1 ELSE 0)
                                + PendingRelease
    /\ arc.drops <= 1
    /\ (readers > 0 \/ \E r \in Readers : Subscribed(r) \/ InSfp(r))
          => /\ arc.drops = 0
             /\ arc.strong >= 1
             /\ \A a \in ListChunks : mem[a].live
    /\ arc.drops = 1
          => /\ readers = 0
             /\ arc.handles = 0
             /\ arc.strong = 0
             /\ \A r \in Readers : rd[r].pc \in {"none", "dropped"}
    /\ (arc.handles = 0 /\ \A r \in Readers : rd[r].pc \in {"none", "dropped"})
          => arc.drops = 1

\* Every owner handle has been dropped while a reader that has read a value
\* is still subscribed: the readers' reference alone keeps the queue.
C15_Witness ==
    /\ load.handles = MaxHandles
    /\ arc.handles = 0
    /\ arc.strong = 1
    /\ arc.drops = 0
    /\ readers = 1
    /\ \E r \in Readers : rd[r].pc = "idle" /\ Len(got[r]) > 0

\* C16: a reader whose iter() or update_position() call began with no clear()
\* or truncate_front() in progress and has returned, with none started
\* since, stands at or after start_position; and the slow path of the call
\* targets exactly start_position for a reader strictly behind it and leaves
\* a reader at or after it where it is.
C16_SteadyState ==
    /\ [](\A r \in Readers :
            (rd[r].calm /\ rd[r].pc \in {"idle", "iter"})
               => /\ start_position.chunk # NULL
                  /\ CursorLe(start_position, rd[r].position))
    /\ [][\A r \in Readers :
            (rd[r].pc = "slow" /\ rd'[r].pc \notin {"slow", "segv"})
               => IF CursorLt(rd[r].position, start_position)
                  THEN \/ rd'[r].position = start_position
                       \/ /\ rd'[r].target = start_position
                          /\ rd'[r].position = rd[r].position
                          /\ rd'[r].pc = "sfp_load"
                  ELSE /\ rd'[r].position = rd[r].position
                       /\ rd'[r].pc = "reload"]_vars

\* This step is the return of reader r's update_position() from the slow path.
UpdReturns(r) ==
    rd[r].pc = "reload" /\ rd[r].upd /\ rd'[r].pc = "idle"

\* In the state after this step a call of update_position() by reader r takes
\* the fast path, which writes nothing: the cached epoch is current, and the
\* reader, the counters and the list stay as they are.
SecondNoOp(r) ==
    /\ (RefreshEpoch(r, TRUE).pc)' = "idle"
    /\ (RefreshEpoch(r, TRUE).epoch)' = rd'[r].epoch
    /\ (RefreshEpoch(r, TRUE).position)' = rd'[r].position

\* C17: when update_position() returns from a call that began with no
\* clear() or truncate_front() in progress and none has started since, a
\* second call that follows with no producer operation in between changes
\* nothing.
C17_UpdateIdempotent ==
    [][\A r \in Readers : (UpdReturns(r) /\ rd'[r].calm) => SecondNoOp(r)]_vars

\* update_position() has moved a lagging reader to the start_position that a
\* completed clear() or truncate_front() set, and is about to return.
C17_Witness ==
    \E r \in Readers :
        /\ rd[r].pc = "reload" /\ rd[r].upd /\ rd[r].calm
        /\ clears >= 1 /\ mtx.op = "free"
        /\ rd[r].position = start_position
        /\ rd[r].epoch = mem[rd[r].position.chunk].epoch
        /\ hist.cleared > subAt[r] /\ got[r] = <<>>

\* C17 as stated: whenever update_position() returns, a second call that
\* follows with no producer operation in between changes nothing.
C17_IdempotentAlways ==
    [][\A r \in Readers : UpdReturns(r) => SecondNoOp(r)]_vars

\* Address a holds the same chunk of the list before and after the step.
SameChunk(a) ==
    /\ a \in ListChunks /\ a \in ListChunks'
    /\ mem[a].live /\ mem'[a].live
    /\ mem'[a].id = mem[a].id

\* C18: in every state, the states of push and extend between linking a new
\* chunk and pushing into it included, a chunk of the list with a non-null
\* next is full; a non-null next never changes, and the length of a chunk in
\* the list never decreases nor exceeds the capacity.
C18_LinkedChunkFull ==
    /\ [](\A a \in ListChunks :
            /\ mem[a].len <= mem[a].capacity
            /\ mem[a].next # NULL => mem[a].len = mem[a].capacity)
    /\ [][\A a \in Addr :
            SameChunk(a)
               => /\ mem[a].next # NULL => mem'[a].next = mem[a].next
                  /\ mem'[a].len >= mem[a].len
                  /\ mem'[a].capacity = mem[a].capacity]_vars

\* push has linked a new, still empty tail after a full chunk and has not
\* pushed into it yet, while a reader is in an Iter.
C18_Witness ==
    /\ mtx.op = "push_unchecked"
    /\ mem[last].len = 0
    /\ first # last
    /\ \E a \in ListChunks : mem[a].next = last /\ mem[a].len = mem[a].capacity
    /\ \E r \in Readers : rd[r].pc = "iter"

\* C19: in every state, the states inside subscribe, unsubscribe and the
\* readers' lock-free walks included, every chunk of the list has
\* 0 <= read_completely_times <= readers.
C19_ReadCountBounded ==
    \A a \in ListChunks :
        /\ mem[a].read_completely_times >= 0
        /\ mem[a].read_completely_times <= readers

\* One reader is inside unsubscribe and has withdrawn from a chunk, readers
\* is not decremented yet, and the other reader is marking chunks as read
\* without the lock.
C19_Witness ==
    /\ readers = NumReaders
    /\ mtx.op = "unsubscribe"
    /\ rd[mtx.owner].pc = "dropping"
    /\ mtx.cur # first
    /\ \E r \in Readers : rd[r].pc = "sfp_walk"

ReadersPast(a) ==
    {r \in Readers : /\ rd[r].pc \in {"idle", "iter"}
                     /\ mem[rd[r].position.chunk].id > mem[a].id}

\* C21: every step of subscribe under the lock adds exactly 1 to the chunk
\* it stands on, which is before the tail, and the last step places the
\* reader at (tail, tail.len) having walked up to the tail, the list
\* untouched; every step of unsubscribe removes exactly 1 from the chunk it
\* stands on, before the reader's chunk, and the last step decrements
\* readers; and in every quiescent state read_completely_times of a chunk of
\* the list is the number of live readers whose cursor chunk comes after it.
C21_ReadCounterAccounting ==
    /\ [](Quiescent
            => \A a \in ListChunks :
                  mem[a].read_completely_times = Cardinality(ReadersPast(a)))
    /\ [][(mtx.op = "subscribe" /\ mtx' # mtx)
            => /\ UNCHANGED <<listVars, readers>>
               /\ IF mtx'.op = "subscribe"
                  THEN /\ mtx.cur \in ListChunks \ {last}
                       /\ mem' = [mem EXCEPT
                                    ![mtx.cur].read_completely_times = @ + 1]
                       /\ mtx'.cur = mem[mtx.cur].next
                  ELSE /\ mtx.cur = last
                       /\ mem' = mem
                       /\ rd'[mtx.owner].position = Cursor(last, mem[last].len)
                       /\ rd'[mtx.owner].pc = "idle"]_vars
    /\ [][(mtx'.op = "unsubscribe" \/ mtx.op = "unsubscribe") /\ mtx' # mtx
            => LET r   == IF mtx.op = "unsubscribe" THEN mtx.owner
                          ELSE mtx'.owner
                   cur == IF mtx.op = "unsubscribe" THEN mtx.cur ELSE first
               IN  /\ UNCHANGED listVars
                   /\ IF cur # rd[r].position.chunk
                      THEN /\ cur \in ListChunks
                           /\ mem[cur].id < mem[rd[r].position.chunk].id
                           /\ mem' = [mem EXCEPT
                                        ![cur].read_completely_times = @ - 1]
                           /\ mtx'.cur = mem[cur].next
                           /\ readers' = readers
                      ELSE /\ mem' = mem
                           /\ readers' = readers - 1
                           /\ mtx'.op = "free"]_vars

\* Quiescent, two readers: one has passed the head chunk and the other has
\* not, so the head counts one reader and the tail none.
C21_Witness ==
    /\ Quiescent
    /\ readers = 2
    /\ first # last
    /\ mem[first].read_completely_times = 1
    /\ mem[last].read_completely_times = 0
    /\ \E r \in Readers : rd[r].pc = "idle" /\ rd[r].position.chunk = first
    /\ \E r \in Readers : rd[r].pc = "idle" /\ rd[r].position.chunk = last

\* C22: clears counts the moves of start_position, and start_position is the
\* one written by move number clears.  While the mutex is free every chunk
\* of the list carries the epoch clears; a chunk never shows the epoch of a
\* move before that move has written start_position; a step that changes a
\* chunk's epoch is a step of set_start_position, adds one and leaves
\* start_position alone; a new chunk inherits the tail's epoch; a reader that
\* has cached an epoch e and copied start_position has copied the one of
\* move e or a later one; and an idle reader that has not copied the latest
\* start_position takes the slow path at its next iter()/update_position().
C22_EpochProtocol ==
    /\ [](mtx.op = "free" => \A a \in ListChunks : mem[a].epoch = clears)
    /\ [](\A a \in ListChunks : mem[a].epoch \in {clears - 1, clears})
    /\ [][\A a \in Addr :
            (SameChunk(a) /\ mem'[a].epoch # mem[a].epoch)
               => /\ mtx.op = "set_epoch"
                  /\ mem'[a].epoch = mem[a].epoch + 1
                  /\ mem'[a].epoch = clears
                  /\ clears' = clears
                  /\ start_position' = start_position]_vars
    /\ [][chunk_id_counter' # chunk_id_counter
            => mem'[last'].epoch = mem[last].epoch]_vars
    /\ [](\A r \in Readers :
            (Subscribed(r) /\ rd[r].pc \notin {"slow", "segv"})
               => /\ rd[r].epoch <= rd[r].seen
                  /\ rd[r].seen <= clears)
    /\ [](\A r \in Readers :
            (mtx.op = "free" /\ rd[r].pc = "idle")
               => \/ rd[r].seen = clears
                  \/ RefreshEpoch(r, FALSE).pc = "slow")

\* A clear() has written start_position and set the epoch of the head only;
\* a reader whose chunk shows the new epoch has cached it and copied the new
\* start_position, while the tail still shows the old epoch.
C22_Witness ==
    /\ mtx.op = "set_epoch" /\ mtx.call = "clear"
    /\ first # last
    /\ mem[first].epoch = clears
    /\ mem[last].epoch = clears - 1
    /\ \E r \in Readers :
          /\ rd[r].pc \in {"sfp_load", "sfp_walk", "reload"}
          /\ rd[r].epoch = clears
          /\ rd[r].seen = clears

\* ---------------------------------------------------------------------- C23
\* C23: chunk recycling with double_buffering.  The slot list.free_chunk holds
\* at most one chunk, and never one of the list.  On every step that reclaims
\* the head c, c is in the slot afterwards iff the slot was empty or c has
\* strictly more capacity than the held chunk; otherwise the slot keeps what
\* it held and c is destructed.  On every step that links a new tail, the new
\* tail is the held chunk iff one is held with capacity >= the requested
\* size, and the slot is then empty; the new tail has the id
\* chunk_id_counter, length 0, the epoch of the old tail, a null next and
\* read_completely_times 0.
C23_Recycling ==
    /\ [](/\ free_chunk \in Addr \cup {NULL}
          /\ free_chunk \notin ListChunks
          /\ ~double_buffering => free_chunk = NULL)
    /\ [][first' # first =>
            LET c == first
                kept == free_chunk = NULL
                          \/ mem[c].capacity > mem[free_chunk].capacity
            IN  /\ free_chunk' = c <=> kept
                /\ ~kept => /\ free_chunk' = free_chunk
                            /\ ~mem'[c].live
                            /\ c \in FreeAddrs']_vars
    /\ [][last' # last =>
            LET reuse == free_chunk # NULL
                           /\ mem[free_chunk].capacity >= NewSize
            IN  /\ last' = free_chunk <=> reuse
                /\ reuse => free_chunk' = NULL
                /\ ~reuse => free_chunk' = free_chunk
                /\ mem'[last'].live
                /\ mem'[last'].id = chunk_id_counter'
                /\ chunk_id_counter' = chunk_id_counter + 1
                /\ mem'[last'].len = 0
                /\ mem'[last'].epoch = mem[last].epoch
                /\ mem'[last'].next = NULL
                /\ mem'[last'].read_completely_times = 0
                /\ mem'[last'].capacity >= NewSize]_vars

\* Three chunk ids over two allocations: the chunk with id 2 is the one that
\* was recycled, it is the tail, holds a value, and the slot is empty again.
C23_Witness ==
    /\ double_buffering
    /\ nalloc = 2 /\ chunk_id_counter = 2
    /\ mem[last].id = 2 /\ mem[last].len > 0
    /\ free_chunk = NULL

\* ---------------------------------------------------------------------- C24
\* C24: with double_buffering, on every step that runs add_chunk (the chunk
\* id counter moves) while a recycled chunk is held, the requested size
\* equals the capacity of the tail: add_chunk's assertion holds.
C24_AssertionHolds ==
    [][chunk_id_counter' # chunk_id_counter
          => (free_chunk # NULL => NewSize = mem[last].capacity)]_vars

\* ---------------------------------------------------------------------- C25
\* The shape of the list while the queue is not dropped: the chunks from
\* first are live and end in last, whose next is null; every chunk but the
\* tail is followed by the chunk with the next id; the head is the next of
\* no chunk of the list and every other chunk of exactly one.
ListShape ==
    /\ first # NULL /\ last \in ListChunks
    /\ mem[last].next = NULL
    /\ \A a \in ListChunks :
          /\ mem[a].live
          /\ a # last => /\ mem[a].next # NULL
                         /\ mem[mem[a].next].id = mem[a].id + 1
          /\ Cardinality({b \in ListChunks : mem[b].next = a})
                = IF a = first THEN 0 ELSE 1

\* C25: at every state of a queue that is not dropped the list has the shape
\* above, tail.id = chunk_id_counter, and chunks_count() is the number of
\* chunks in the list and at least 1; a chunk stops being live only as the
\* head of a list of two or more chunks, and the head is then its next.
C25_ListShape ==
    /\ [](arc.drops = 0 =>
            /\ ListShape
            /\ mem[last].id = chunk_id_counter
            /\ ChunksCount = Cardinality(ListChunks)
            /\ ChunksCount >= 1)
    /\ [][\A a \in Addr :
            (mem[a].live /\ ~mem'[a].live /\ arc'.drops = 0)
               => /\ a = first /\ a # last
                  /\ first' = mem[a].next
                  /\ last' = last]_vars

\* ---------------------------------------------------------------------- C26
\* Reader r is inside subscribe, the drop of the reader, iter(),
\* update_position() or the drop of an Iter.
ReaderOp(r) ==
    rd[r].pc \in {"subscribing", "dropping", "arc_dec", "slow", "reload",
                  "sfp_load", "sfp_walk", "sfp_cleanup", "segv"}

\* A call of push, extend, cleanup, clear, truncate_front or of a reader has
\* started and has not returned.
OpInProgress ==
    mtx.op # "free" \/ \E r \in Readers : ReaderOp(r)

\* No thread asks for the producer mutex while it holds it: a reader that is
\* at the cleanup() of set_forward_position holds the mutex for that cleanup
\* or not at all.
NoSelfRequest ==
    \A r \in Readers :
        rd[r].pc = "sfp_cleanup"
           => (mtx.op = "free" \/ mtx.owner # r \/ mtx.op = "cleanup")

\* C26: no thread asks for the producer mutex while it holds it; in no
\* reachable state is a call in progress with no step left to take; and
\* under fair scheduling every call that takes the producer mutex releases
\* it and every call of a reader returns.
C26_Termination ==
    /\ []NoSelfRequest
    /\ [](OpInProgress => ENABLED Next)
    /\ (mtx.op # "free") ~> (mtx.op = "free")
    /\ \A r \in Readers : ReaderOp(r) ~> ~ReaderOp(r)

\* ---------------------------------------------------------------------- C27
\* C27: start_position never moves backward.  On every step that changes a
\* start_position that an earlier clear() or truncate_front() has set into
\* another chunk position, the new cursor is >= the old one in (chunk id,
\* index) order and the step is one more call of set_start_position; and the
\* epoch of a chunk never decreases.
C27_StartPositionForward ==
    /\ [][(/\ clears > 0
           /\ start_position' # start_position
           /\ start_position.chunk # NULL
           /\ start_position'.chunk # NULL)
             => /\ \/ mem[start_position.chunk].id
                         < mem'[start_position'.chunk].id
                   \/ /\ mem[start_position.chunk].id
                            = mem'[start_position'.chunk].id
                      /\ start_position.index <= start_position'.index
                /\ clears' = clears + 1]_vars
    /\ [][\A a \in Addr :
            SameChunk(a) => mem'[a].epoch >= mem[a].epoch]_vars

====
